---- MODULE Spec2Model ----
(***************************************************************************)
(* Model of hotel_dump.py: the __main__ block and download_latest.         *)
(*                                                                         *)
(* Strings are sequences of atoms.  Every atom stands for a fixed piece of *)
(* text; no atom is a prefix of another, so a sequence of atoms denotes    *)
(* exactly one string, concatenation of strings is \o, a string prefix is  *)
(* a sequence prefix, and Python's str ordering is the lexicographic       *)
(* ordering of the sequences under the code-point order of the atoms'      *)
(* first characters.                                                       *)
(***************************************************************************)
EXTENDS Integers, Sequences, FiniteSets, TLC

VARIABLES
    bucket,       \* the objects of the S3 bucket, in listing order: [key, e_tag]
    destKind,     \* what args.dest_folder names: "dir", "missing" or "file"
    dirs,         \* the snapshot tokens T for which <dest>/hotels/T exists
    files,        \* <<T, name>> |-> the file <dest>/hotels/T/name
    pc,           \* position of the running process, "idle" when none runs
    status,       \* how the last run ended
    latest_date,  \* <<>> for None, <<token>> otherwise
    idx,          \* position of the second loop in its listing
    runs,         \* number of executions of the program started so far
    aborted,      \* some execution so far ended with a transfer or integrity error
    conns,        \* boto3.resource calls of the current run
    listings,     \* bucket.objects.filter calls of the current run
    downloads,    \* keys passed to download_file in the current run
    verifs,       \* keys whose temp file was hashed in the current run
    renames,      \* keys whose temp file was renamed in the current run
    startDirs,    \* dirs as they were when the current run started
    startFiles,   \* files as they were when the current run started
    skipped       \* <<path, file>> of the entries the current run passed over as present

vars == <<bucket, destKind, dirs, files, pc, status, latest_date, idx, runs,
          aborted, conns, listings, downloads, verifs, renames, startDirs,
          startFiles, skipped>>

\* Bounds of the model.
MaxLen == 4
MaxRuns == 2

----------------------------------------------------------------------------
\* Strings

\* Code-point order of the atoms: "/" < "1" < "2" < "_" < "a" < "d" < "h".
AtomOrd(a) ==
    CASE a = "/" -> 0
      [] a = "1" -> 1
      [] a = "2" -> 2
      [] a = "_tmp" -> 3
      [] a = "a" -> 4
      [] a = "done" -> 5
      [] a = "hotels" -> 6

\* Python's s > t on str.
RECURSIVE StrGt(_, _)
StrGt(s, t) ==
    IF s = <<>> THEN FALSE
    ELSE IF t = <<>> THEN TRUE
    ELSE IF s[1] = t[1] THEN StrGt(Tail(s), Tail(t))
    ELSE AtomOrd(s[1]) > AtomOrd(t[1])

\* str.startswith, which is what Prefix= asks of the service.
StartsWith(s, p) == Len(p) <= Len(s) /\ SubSeq(s, 1, Len(p)) = p

\* The positions of "/" in s.
Slashes(s) == {i \in 1..Len(s) : s[i] = "/"}

\* s.split("/")[-1]
basename(s) ==
    IF Slashes(s) = {} THEN s
    ELSE LET last == CHOOSE i \in Slashes(s) : \A j \in Slashes(s) : j <= i
         IN  SubSeq(s, last + 1, Len(s))

HotelsPrefix == <<"hotels", "/">>

\* re.match("^hotels/([^/]+)", key) without the closing anchor.
ReMatchUnanchored(key) ==
    IF StartsWith(key, HotelsPrefix) /\ Len(key) > 2 /\ key[3] # "/"
    THEN LET rest == SubSeq(key, 3, Len(key))
             stop == IF Slashes(rest) = {} THEN Len(rest) + 1
                     ELSE CHOOSE i \in Slashes(rest) : \A j \in Slashes(rest) : i <= j
         IN  <<SubSeq(rest, 1, stop - 1)>>
    ELSE <<>>

\* re.match("^hotels/([^/]+)$", key): <<>> for no match, <<group(1)>> otherwise.
\* (No atom holds a newline, so "$" is the end of the key.)
ReMatch(key) ==
    IF StartsWith(key, HotelsPrefix)
       /\ Len(key) > 2
       /\ \A i \in 3..Len(key) : key[i] # "/"
    THEN <<SubSeq(key, 3, Len(key))>>
    ELSE <<>>

----------------------------------------------------------------------------
\* Contents, hashes and e-tags

\* The bytes of the remote object key; distinct objects hold distinct bytes.
Content(key) == [obj |-> key, intact |-> TRUE]
\* What a transfer that damaged the bytes leaves.
Damaged(key) == [obj |-> key, intact |-> FALSE]

\* hashlib.md5 over the whole file, taken to be free of collisions.
md5(content) == [md5of |-> content, parts |-> 0]

\* '"{}"'.format(h)
Quote(h) == [quoted |-> h]

\* The e-tag S3 gives an object uploaded in one part, and the one it gives
\* an object uploaded in several parts (never the MD5 of the bytes).
SinglePartTag(key) == Quote(md5(Content(key)))
MultiPartTag(key) == Quote([md5of |-> Content(key), parts |-> 2])

----------------------------------------------------------------------------
\* The bucket

Keys == {
    HotelsPrefix \o <<"1">>,
    HotelsPrefix \o <<"2">>,
    HotelsPrefix \o <<"1", "/">>,
    HotelsPrefix \o <<"1", "/", "done">>,
    HotelsPrefix \o <<"1", "/", "a">>,
    HotelsPrefix \o <<"1", "/", "1", "/", "a", "_tmp">>,
    HotelsPrefix \o <<"1", "/", "2", "/", "a">>,
    HotelsPrefix \o <<"1", "2", "/", "a">>,
    HotelsPrefix \o <<"2", "/", "a">>
}

Objects == {[key |-> k, e_tag |-> t] : k \in Keys, t \in {"single", "multi"}}

ETag(o) == IF o.e_tag = "single" THEN SinglePartTag(o.key) ELSE MultiPartTag(o.key)

\* The order in which S3 lists keys: the binary order of the keys.
RECURSIVE SortByKey(_)
SortByKey(S) ==
    IF S = {} THEN <<>>
    ELSE LET m == CHOOSE x \in S : \A y \in S : ~StrGt(x.key, y.key)
         IN  <<m>> \o SortByKey(S \ {m})

\* A listing of S3: no key twice, keys in ascending order.
IsS3Listing(objs) ==
    \A i, j \in 1..Len(objs) : i < j => StrGt(objs[j].key, objs[i].key)

\* bucket.objects.filter(Prefix=prefix)
Filter(prefix) == SelectSeq(bucket, LAMBDA o : StartsWith(o.key, prefix))

----------------------------------------------------------------------------
\* The Snapshot Resolver: the first loop of download_latest

\* The loop with the comparison the wrong way round.
RECURSIVE ResolveLoopLess(_, _)
ResolveLoopLess(objs, latest) ==
    IF objs = <<>> THEN latest
    ELSE LET done_file_match == ReMatch(Head(objs).key)
         IN  ResolveLoopLess(Tail(objs),
                 IF done_file_match # <<>>
                    /\ (latest = <<>> \/ StrGt(latest[1], done_file_match[1]))
                 THEN done_file_match ELSE latest)

\* for object_summary in ...: if done_file_match: if latest_date is None or
\* date > latest_date: latest_date = date
RECURSIVE ResolveLoopRec(_, _)
ResolveLoopRec(objs, latest) ==
    IF objs = <<>> THEN latest
    ELSE LET done_file_match == ReMatch(Head(objs).key)
         IN  ResolveLoopRec(Tail(objs),
                 IF done_file_match # <<>>
                    /\ (latest = <<>> \/ StrGt(done_file_match[1], latest[1]))
                 THEN done_file_match ELSE latest)

ResolveLoop(objs, latest) == ResolveLoopRec(objs, latest)

----------------------------------------------------------------------------
\* The local file system

\* os.path.join(dest_folder, "hotels", latest_date) is the folder T = latest_date[1];
\* os.path.join(target_folder, basename) is <<T, basename>>, and the folder
\* itself when basename is empty.
local_path(T, name) == <<T, name>>
local_tmp_path(T, name) == <<T, name \o <<"_tmp">>>>

\* os.path.exists(local_path)
Exists(T, name) ==
    IF name = <<>> THEN T \in dirs ELSE local_path(T, name) \in DOMAIN files

\* The assertion without its os.path.isdir half.
DestOkNoIsdir == destKind # "missing"

\* os.path.exists(args.dest_folder) and os.path.isdir(args.dest_folder)
DestOk == destKind = "dir"

\* The comparison left out.
ChecksumAlwaysOk(f, o) == TRUE

\* expected_e_tag == object.e_tag, for the temp file f of the entry o
ChecksumOk(f, o) == Quote(md5(f.content)) = ETag(o)

\* The second listing, once latest_date is set.
Entries == Filter(HotelsPrefix \o latest_date[1])

----------------------------------------------------------------------------
\* The program

TypeOK ==
    /\ destKind \in {"dir", "missing", "file"}
    /\ pc \in {"idle", "connect", "resolve", "mkdir", "list", "loop", "verify", "rename"}
    /\ status \in {"none", "ok", "config_error", "no_dump", "transfer_error",
                   "integrity_error", "interrupted"}
    /\ Len(latest_date) <= 1
    /\ runs \in 0..MaxRuns + 1

InitRest ==
    /\ dirs = {}
    /\ files = <<>>
    /\ pc = "idle"
    /\ status = "none"
    /\ latest_date = <<>>
    /\ idx = 0
    /\ runs = 0
    /\ aborted = FALSE
    /\ conns = 0
    /\ listings = 0
    /\ downloads = <<>>
    /\ verifs = <<>>
    /\ renames = <<>>
    /\ startDirs = {}
    /\ startFiles = <<>>
    /\ skipped = {}

\* The bucket holds any objects, listed as S3 lists them; the destination is
\* an empty folder, or missing, or a file.
Init ==
    /\ \E S \in SUBSET Objects :
          /\ Cardinality(S) <= MaxLen
          /\ \A x, y \in S : x.key = y.key => x = y
          /\ bucket = SortByKey(S)
    /\ destKind \in {"dir", "missing", "file"}
    /\ InitRest

\* The run is over: the process exits, with an error unless how = "ok".
End(how) ==
    /\ pc' = "idle"
    /\ status' = how
    /\ aborted' = (aborted \/ how \in {"transfer_error", "integrity_error"})

\* __main__, lines 104-110: parse_args and the assertion on dest_folder.
RunStart ==
    /\ pc = "idle"
    /\ runs < MaxRuns
    /\ runs' = runs + 1
    /\ latest_date' = <<>>
    /\ idx' = 0
    /\ conns' = 0
    /\ listings' = 0
    /\ downloads' = <<>>
    /\ verifs' = <<>>
    /\ renames' = <<>>
    /\ startDirs' = dirs
    /\ startFiles' = files
    /\ skipped' = {}
    /\ IF DestOk
       THEN pc' = "connect" /\ status' = "none" /\ UNCHANGED aborted
       ELSE End("config_error")
    /\ UNCHANGED <<bucket, destKind, dirs, files>>

\* boto3.resource("s3") and s3.Bucket("trustyou-api")
Connect ==
    /\ pc = "connect"
    /\ conns' = conns + 1
    /\ pc' = "resolve"
    /\ UNCHANGED <<bucket, destKind, dirs, files, status, latest_date, idx, runs,
                   aborted, listings, downloads, verifs, renames, startDirs,
                   startFiles, skipped>>

\* The first listing and its loop, then the assertion on latest_date.
Resolve ==
    /\ pc = "resolve"
    /\ listings' = listings + 1
    /\ latest_date' = ResolveLoop(Filter(HotelsPrefix), <<>>)
    /\ IF latest_date' # <<>>
       THEN pc' = "mkdir" /\ UNCHANGED <<status, aborted>>
       ELSE End("no_dump")
    /\ UNCHANGED <<bucket, destKind, dirs, files, idx, runs, conns, downloads,
                   verifs, renames, startDirs, startFiles, skipped>>

\* A listing that the service fails.
ListError ==
    /\ pc \in {"resolve", "list"}
    /\ listings' = listings + 1
    /\ End("transfer_error")
    /\ UNCHANGED <<bucket, destKind, dirs, files, latest_date, idx, runs, conns,
                   downloads, verifs, renames, startDirs, startFiles, skipped>>

\* if not os.path.exists(target_folder): os.makedirs(target_folder)
MakeDirs ==
    /\ pc = "mkdir"
    /\ dirs' = dirs \cup {latest_date[1]}
    /\ pc' = "list"
    /\ UNCHANGED <<bucket, destKind, files, status, latest_date, idx, runs,
                   aborted, conns, listings, downloads, verifs, renames,
                   startDirs, startFiles, skipped>>

\* bucket.objects.filter(Prefix="hotels/{}".format(latest_date))
ListSnapshot ==
    /\ pc = "list"
    /\ listings' = listings + 1
    /\ idx' = 1
    /\ pc' = "loop"
    /\ UNCHANGED <<bucket, destKind, dirs, files, status, latest_date, runs,
                   aborted, conns, downloads, verifs, renames, startDirs,
                   startFiles, skipped>>

AtEntry == pc = "loop" /\ idx <= Len(Entries)

\* The loop is exhausted: download_latest returns, "Done!".
RunEnd ==
    /\ pc = "loop"
    /\ idx > Len(Entries)
    /\ End("ok")
    /\ UNCHANGED <<bucket, destKind, dirs, files, latest_date, idx, runs, conns,
                   listings, downloads, verifs, renames, startDirs, startFiles,
                   skipped>>

\* if basename == "done": continue
SkipDone ==
    /\ AtEntry
    /\ basename(Entries[idx].key) = <<"done">>
    /\ idx' = idx + 1
    /\ UNCHANGED <<bucket, destKind, dirs, files, pc, status, latest_date, runs,
                   aborted, conns, listings, downloads, verifs, renames,
                   startDirs, startFiles, skipped>>

\* if os.path.exists(local_path): continue
SkipExisting ==
    /\ AtEntry
    /\ basename(Entries[idx].key) # <<"done">>
    /\ Exists(latest_date[1], basename(Entries[idx].key))
    /\ idx' = idx + 1
    /\ LET p == local_path(latest_date[1], basename(Entries[idx].key))
       IN  skipped' = IF p \in DOMAIN files
                      THEN skipped \cup {<<p, files[p]>>} ELSE skipped
    /\ UNCHANGED <<bucket, destKind, dirs, files, pc, status, latest_date, runs,
                   aborted, conns, listings, downloads, verifs, renames,
                   startDirs, startFiles>>

ToDownload ==
    /\ AtEntry
    /\ basename(Entries[idx].key) # <<"done">>
    /\ ~Exists(latest_date[1], basename(Entries[idx].key))

\* object.download_file(local_tmp_path): the bytes arrive, intact or not.
Download ==
    /\ ToDownload
    /\ LET o == Entries[idx]
           tmp == local_tmp_path(latest_date[1], basename(o.key))
       IN  \E c \in {Content(o.key), Damaged(o.key)} :
              files' = (tmp :> [content |-> c, src |-> o, verified |-> FALSE,
                                via |-> "download"]) @@ files
    /\ downloads' = Append(downloads, Entries[idx].key)
    /\ pc' = "verify"
    /\ UNCHANGED <<bucket, destKind, dirs, status, latest_date, idx, runs,
                   aborted, conns, listings, verifs, renames, startDirs,
                   startFiles, skipped>>

\* object.download_file raises.
DownloadError ==
    /\ ToDownload
    /\ downloads' = Append(downloads, Entries[idx].key)
    /\ End("transfer_error")
    /\ UNCHANGED <<bucket, destKind, dirs, files, latest_date, idx, runs, conns,
                   listings, verifs, renames, startDirs, startFiles, skipped>>

\* md5(local_tmp_path) and the assertion on the e-tag.
Verify ==
    /\ pc = "verify"
    /\ LET o == Entries[idx]
           tmp == local_tmp_path(latest_date[1], basename(o.key))
       IN  IF ChecksumOk(files[tmp], o)
           THEN /\ pc' = "rename"
                /\ files' = [files EXCEPT ![tmp].verified = TRUE]
                /\ UNCHANGED <<status, aborted>>
           ELSE /\ End("integrity_error")
                /\ UNCHANGED files
    /\ verifs' = Append(verifs, Entries[idx].key)
    /\ UNCHANGED <<bucket, destKind, dirs, latest_date, idx, runs, conns,
                   listings, downloads, renames, startDirs, startFiles,
                   skipped>>

\* os.rename(local_tmp_path, local_path)
Rename ==
    /\ pc = "rename"
    /\ LET o == Entries[idx]
           tmp == local_tmp_path(latest_date[1], basename(o.key))
           final == local_path(latest_date[1], basename(o.key))
       IN  files' = [p \in (DOMAIN files \ {tmp}) \cup {final} |->
                        IF p = final THEN [files[tmp] EXCEPT !.via = "rename"]
                        ELSE files[p]]
    /\ renames' = Append(renames, Entries[idx].key)
    /\ idx' = idx + 1
    /\ pc' = "loop"
    /\ UNCHANGED <<bucket, destKind, dirs, status, latest_date, runs, aborted,
                   conns, listings, downloads, verifs, startDirs, startFiles,
                   skipped>>

\* The process is interrupted between two steps.
Interrupt ==
    /\ pc # "idle"
    /\ End("interrupted")
    /\ UNCHANGED <<bucket, destKind, dirs, files, latest_date, idx, runs, conns,
                   listings, downloads, verifs, renames, startDirs, startFiles,
                   skipped>>

Next ==
    \/ RunStart
    \/ Connect
    \/ Resolve
    \/ ListError
    \/ MakeDirs
    \/ ListSnapshot
    \/ RunEnd
    \/ SkipDone
    \/ SkipExisting
    \/ Download
    \/ DownloadError
    \/ Verify
    \/ Rename
    \/ Interrupt

Spec == Init /\ [][Next]_vars

\* The Resolver alone, on any sequence of entries: any order, duplicates.
InitResolver ==
    /\ bucket \in UNION {[1..n -> {o \in Objects : o.e_tag = "single"}] : n \in 0..MaxLen}
    /\ destKind = "dir"
    /\ InitRest

NextResolver == RunStart \/ Connect \/ Resolve

SpecResolver == InitResolver /\ [][NextResolver]_vars

----------------------------------------------------------------------------
\* Vocabulary of the properties

\* key is hotels/<token> with no further path segment, and its token.
IsOneLevelKey(key) ==
    /\ Len(key) > 2
    /\ key[1] = "hotels"
    /\ Slashes(key) = {2}
TokenOfKey(key) == SubSeq(key, 3, Len(key))

\* The tokens a sequence of entries presents.
TokensOf(objs) ==
    {TokenOfKey(objs[i].key) : i \in {j \in 1..Len(objs) : IsOneLevelKey(objs[j].key)}}

\* The entries of the bucket that lie in the folder of snapshot T and are
\* data files: hotels/T/.../<name>, name neither empty nor the marker.
DataEntries(T) ==
    {i \in 1..Len(bucket) :
        /\ StartsWith(bucket[i].key, HotelsPrefix \o T \o <<"/">>)
        /\ basename(bucket[i].key) \notin {<<>>, <<"done">>}}

FinalOf(T, i) == <<T, basename(bucket[i].key)>>
TmpOf(T, i) == <<T, basename(bucket[i].key) \o <<"_tmp">>>>

\* The entry the second loop is at.
Cur == Entries[idx]
CurFinal == <<latest_date[1], basename(Cur.key)>>
CurTmp == <<latest_date[1], basename(Cur.key) \o <<"_tmp">>>>

----------------------------------------------------------------------------
\* C1: every file at the final path of a data entry of the selected snapshot
\* got there by a rename of a temp file whose quoted MD5 equalled the e-tag
\* of the entry it was downloaded from; no download writes to a final name.
\* Stated for the listings S3 produces.
C1_FinalFilesVerified ==
    (IsS3Listing(bucket) /\ latest_date # <<>>) =>
        \A i \in DataEntries(latest_date[1]) :
            FinalOf(latest_date[1], i) \in DOMAIN files =>
                LET f == files[FinalOf(latest_date[1], i)]
                IN  /\ f.via = "rename"
                    /\ f.verified
                    /\ Quote(md5(f.content)) = ETag(f.src)

\* C2: the selected token is one under which a done object exists.
C2_SelectedHasDone ==
    latest_date # <<>> =>
        \E i \in 1..Len(bucket) :
            bucket[i].key = HotelsPrefix \o latest_date[1] \o <<"/", "done">>

\* C3: after the first loop latest_date is the greatest, under the string
\* order, of the tokens of the one-level keys of the listing (None when there
\* is none), whatever the order of the entries and with duplicates.
C3_ResolverIsMax ==
    (pc = "mkdir" \/ (pc = "idle" /\ status = "no_dump")) =>
        LET S == TokensOf(bucket)
        IN  /\ S = {} => latest_date = <<>>
            /\ S # {} =>
                  /\ latest_date # <<>>
                  /\ latest_date[1] \in S
                  /\ \A u \in S : ~StrGt(u, latest_date[1])
            /\ \A f \in Permutations(1..Len(bucket)) :
                  ResolveLoop([i \in 1..Len(bucket) |-> bucket[f[i]]], <<>>) = latest_date

C3_Witness ==
    /\ pc = "mkdir"
    /\ Len(bucket) = 4
    /\ bucket[4].key = HotelsPrefix \o <<"2", "/", "a">>
    /\ bucket[1].key = HotelsPrefix \o <<"2">>
    /\ bucket[2].key = HotelsPrefix \o <<"1">>
    /\ bucket[3].key = HotelsPrefix \o <<"2">>
    /\ latest_date = <<(<<"2">>)>>

\* C4: a file that is at the final name of an entry when the second loop
\* reaches the entry is left as it is by the run: it is there, unchanged, at
\* every later point of the run.  Stated for the listings S3 produces.
C4_SkippedUntouched ==
    IsS3Listing(bucket) =>
        \A s \in skipped : s[1] \in DOMAIN files /\ files[s[1]] = s[2]

\* C5: an entry whose temp file does not hash to its e-tag is never renamed;
\* the run ends there with the temp file in place, no file at the final
\* name, and this entry the last one downloaded and hashed.
C5_MismatchAborts ==
    /\ pc = "rename" => Quote(md5(files[CurTmp].content)) = ETag(Cur)
    /\ (pc = "idle" /\ status = "integrity_error") =>
          /\ CurTmp \in DOMAIN files
          /\ Quote(md5(files[CurTmp].content)) # ETag(Cur)
          /\ CurFinal \notin DOMAIN files
          /\ downloads[Len(downloads)] = Cur.key
          /\ verifs = downloads
          /\ renames = SubSeq(downloads, 1, Len(downloads) - 1)

C5_Witness ==
    /\ pc = "idle"
    /\ status = "integrity_error"
    /\ idx < Len(Entries)
    /\ Cur.e_tag = "single"

\* C6: a run that ends without error after an earlier run aborted leaves a
\* file at the final name of every data entry of the selected snapshot.
C6_ResumeCompletes ==
    (IsS3Listing(bucket) /\ pc = "idle" /\ status = "ok" /\ aborted) =>
        \A i \in DataEntries(latest_date[1]) :
            FinalOf(latest_date[1], i) \in DOMAIN files

\* C7: with no one-level key in the listing the run ends with the no-dump
\* error right after the first listing: nothing downloaded, no second
\* listing, nothing created locally.
C7_NoDumpBeforeDownload ==
    TokensOf(bucket) = {} =>
        /\ pc \in {"idle", "connect", "resolve"}
        /\ status # "ok"
        /\ (pc = "idle" /\ listings = 1) => status \in {"no_dump", "transfer_error"}
        /\ listings <= 1
        /\ downloads = <<>>
        /\ dirs = {}
        /\ files = <<>>

C7_Witness ==
    /\ pc = "idle"
    /\ status = "no_dump"
    /\ listings = 1
    /\ Len(bucket) >= 2

\* C8: with dest_folder missing or not a directory every run ends with the
\* configuration error before boto3 is used: no connection, no listing, no
\* download, nothing created.
C8_ConfigErrorFirst ==
    destKind # "dir" =>
        /\ pc = "idle"
        /\ runs > 0 => status = "config_error"
        /\ conns = 0
        /\ listings = 0
        /\ downloads = <<>>
        /\ dirs = {}
        /\ files = <<>>

C8_Witness ==
    /\ destKind = "file"
    /\ status = "config_error"
    /\ Len(bucket) > 0

\* C9: a run from an empty destination that ends without error leaves, for
\* every data entry of the selected snapshot, a file at its final name with
\* the bytes of that object, and none of its temp files.
C9_CompleteCopy ==
    (IsS3Listing(bucket) /\ pc = "idle" /\ status = "ok"
        /\ startFiles = <<>> /\ startDirs = {}) =>
        \A i \in DataEntries(latest_date[1]) :
            /\ FinalOf(latest_date[1], i) \in DOMAIN files
            /\ files[FinalOf(latest_date[1], i)].content = Content(bucket[i].key)
            /\ \/ TmpOf(latest_date[1], i) \notin DOMAIN files
               \/ \E j \in DataEntries(latest_date[1]) :
                     FinalOf(latest_date[1], j) = TmpOf(latest_date[1], i)

\* C10: every key downloaded in a run lies in the folder of the selected
\* token: hotels/<T>/...
C10_DownloadsInSnapshot ==
    \A i \in 1..Len(downloads) :
        StartsWith(downloads[i], HotelsPrefix \o latest_date[1] \o <<"/">>)

====
